---- MODULE Spec2Model ----
(***************************************************************************)
(* Model of ultrasonic_mapping.py: the round loop gather_readings, the     *)
(* export plot_data, the continuous driver main, and the batch driver that *)
(* runs rounds and exports them.                                           *)
(*                                                                         *)
(* Distances are integers (centimetres).  A sensor sample is an optional   *)
(* number: <<>> is Python's None (timeout), <<r>> is the number r.         *)
(***************************************************************************)
EXTENDS Integers, Sequences, FiniteSets, TLC

\* ---------------------------------------------------------------- bounds
\* length of the scripted sensor feed, repeated cyclically
PatLen == 2
\* ticks of the continuous loop that are explored
MaxTicks == 203
\* largest round size num_readings that is explored
MaxN == 3
\* rounds of a batch session that are explored
MaxRounds == 3

\* ------------------------------------------------------- program constants
WARNING_DISTANCE == 10
\* window capacity of the continuous loop
WINDOW == 200
\* initial/minimal upper limit of the x axis
XLIM0 == 200
\* initial/minimal upper limit of the y axis
YLIM0 == 100
\* margin added to the last index for the x axis
XMARGIN == 10
\* margin added to the last distance for the y axis
YMARGIN == 10
\* longest ASCII bar
BARMAX == 50

None == <<>>
Some(r) == <<r>>
\* raw values the sensor can deliver
RawValues == {-1, 0, 5, 10, 120}
Samples == {None} \cup {Some(r) : r \in RawValues}
\* scripted feeds: every sequence of PatLen samples
Feeds == [1..PatLen -> Samples]

Max(a, b) == IF a >= b THEN a ELSE b
Min(a, b) == IF a <= b THEN a ELSE b

VARIABLES
    mode,         \* "live": main's continuous loop; "batch": rounds + export
    interactive,  \* batch: ask for confirmation between rounds
    sensor,       \* the scripted feed behind sensor.read()
    nreads,       \* number of sensor.read() calls so far
    pc,           \* program location
    err,          \* uncaught exception, "" when none
    dist,         \* local dist (raw sample)
    dist_val,     \* local dist_val
    bar,          \* local bar_len / bar_length
    i,            \* loop variable i
    distances,    \* main: distances
    indices,      \* main: indices
    line_x,       \* main: data given to line.set_xdata
    line_y,       \* main: data given to line.set_ydata
    xlim,         \* main: upper x limit (lower is 0)
    ylim,         \* main: upper y limit (lower is 0)
    num_readings, \* gather_readings: parameter
    data,         \* gather_readings: local data
    ret,          \* batch driver: the round returned by gather_readings
    round_number, \* batch driver: round counter
    plot_x,       \* plot_data: indices given to plt.plot
    plot_y,       \* plot_data: distances given to plt.plot
    saved,        \* plot_data: round numbers of the files saved, in order
    calls,        \* number of gather_readings calls so far
    sound_plays,  \* number of music_obj.sound_play calls so far
    tick          \* events of the current tick, in order

vars == <<mode, interactive, sensor, nreads, pc, err, dist, dist_val,
          bar, i, distances, indices, line_x, line_y, xlim, ylim,
          num_readings, data, ret, round_number, plot_x, plot_y, saved,
          calls, sound_plays, tick>>

liveVars == <<distances, indices, line_x, line_y, xlim, ylim>>
batchVars == <<num_readings, data, ret, round_number, plot_x, plot_y, saved,
               interactive, calls>>

\* ------------------------------------------------------------ pure helpers
\* sensor.read(): the n-th call (n counted from 0) on feed f
Read(f, n) == f[(n % Len(f)) + 1]

\* Python's floor division by 2 followed by int(): floor(d / 2)
FloorHalf(d) == d \div 2

\* min(int(dist // 2), 50)
BarLen(d) == Min(FloorHalf(d), BARMAX)

\* gather_readings: dist_val from dist
GatherClassify(d) == IF d = None THEN 0 ELSE Max(d[1], 0)

\* main: dist_val from dist
MainClassify(d) == IF d = None THEN 0 ELSE d[1]

\* gather_readings: if 0 < dist_val < WARNING_DISTANCE
GatherFires(dv) == 0 < dv /\ dv < WARNING_DISTANCE

\* MainFires with the lower guard not strict
MainFiresAtZero(dv) == 0 <= dv /\ dv < WARNING_DISTANCE

\* main: if 0 < dist_val < WARNING_DISTANCE
MainFires(dv) == 0 < dv /\ dv < WARNING_DISTANCE

\* WindowPush without the eviction of the oldest entry
WindowPushNoEvict(s, x) == Append(s, x)

\* main: distances after distances.append(x) and the sliding-window pop
WindowPush(s, x) ==
    LET t == Append(s, x)
    IN  IF Len(t) > WINDOW THEN Tail(t) ELSE t

\* IndexPush without the pop of the oldest index
IndexPushNoPop(s, x, ds) == Append(s, x)

\* main: indices after indices.append(x) and the sliding-window pop, which
\* is taken when len(distances) > 200, ds being distances before its append
IndexPush(s, x, ds) ==
    LET t == Append(s, x)
    IN  IF Len(ds) + 1 > WINDOW THEN Tail(t) ELSE t

\* main: ax.set_xlim(0, max(200, i + 10))
XLimit(n) == Max(XLIM0, n + XMARGIN)

\* main: ax.set_ylim(0, max(100, dist_val + 10))
YLimit(dv) == Max(YLIM0, dv + YMARGIN)

\* gather_readings: data = [] at the start of every call
GatherStart(old) == <<>>

\* LoopContinues running one iteration too many
LoopContinuesInclusive(n, N) == n <= N

\* gather_readings: range(1, num_readings + 1) has an element after n
LoopContinues(n, N) == n < N

\* RoundPush numbering a reading by the length of the list before the append
RoundPushFromZero(s, n, dv) == Append(s, <<Len(s), dv>>)

\* gather_readings: data.append((i, dist_val))
RoundPush(s, n, dv) == Append(s, <<n, dv>>)

\* plot_data: indices = [d[0] for d in data]
PlotIndices(s) == [k \in 1..Len(s) |-> s[k][1]]

\* PlotDistances with the series reversed
PlotDistancesReversed(s) == [k \in 1..Len(s) |-> s[Len(s) + 1 - k][2]]

\* plot_data: distances = [d[1] for d in data]
PlotDistances(s) == [k \in 1..Len(s) |-> s[k][2]]

\* SaveFig losing the file
SaveFigLost(files, r) == files

\* plot_data: plt.savefig(filename), one file named after the round
SaveFig(files, r) == Append(files, r)

\* NextRound skipping a number
NextRoundSkips(r) == r + 2

\* batch driver: the round counter after a completed round
NextRound(r) == r + 1

\* ---------------------------------------------------------------- initial
Init ==
    /\ mode \in {"live", "batch"}
    /\ sensor \in Feeds
    /\ IF mode = "live"
         THEN /\ interactive = FALSE
              /\ num_readings = 0
              /\ pc = "m_read"
         ELSE /\ interactive \in BOOLEAN
              /\ num_readings \in 0..MaxN
              /\ pc = "b_round"
    /\ nreads = 0
    /\ err = ""
    /\ dist = None
    /\ dist_val = 0
    /\ bar = 0
    /\ i = 0
    /\ distances = <<>>
    /\ indices = <<>>
    /\ line_x = <<>>
    /\ line_y = <<>>
    /\ xlim = XLIM0
    /\ ylim = YLIM0
    /\ data = <<>>
    /\ ret = <<>>
    /\ round_number = 1
    /\ plot_x = <<>>
    /\ plot_y = <<>>
    /\ saved = <<>>
    /\ calls = 0
    /\ sound_plays = 0
    /\ tick = <<>>

\* ------------------------------------------------------- main (continuous)
\* dist = sensor.read()
MainRead ==
    /\ pc = "m_read"
    /\ i < MaxTicks
    /\ dist' = Read(sensor, nreads)
    /\ nreads' = nreads + 1
    /\ tick' = <<"sample">>
    /\ pc' = "m_bar"
    /\ UNCHANGED <<mode, sensor, err, dist_val, bar, i, sound_plays>>
    /\ UNCHANGED liveVars
    /\ UNCHANGED batchVars

\* bar_length = min(int(dist // 2), 50); print(...): None // 2 raises
MainBar ==
    /\ pc = "m_bar"
    /\ IF dist = None
         THEN /\ err' = "TypeError"
              /\ pc' = "crashed"
              /\ bar' = bar
         ELSE /\ bar' = BarLen(dist[1])
              /\ pc' = "m_sleep1"
              /\ err' = err
    /\ UNCHANGED <<mode, sensor, nreads, dist, dist_val, i, sound_plays, tick>>
    /\ UNCHANGED liveVars
    /\ UNCHANGED batchVars

\* time.sleep(0.3) right after the print
MainSleep1 ==
    /\ pc = "m_sleep1"
    /\ tick' = Append(tick, "sleep")
    /\ pc' = "m_classify"
    /\ UNCHANGED <<mode, sensor, nreads, err, dist, dist_val, bar, i, sound_plays>>
    /\ UNCHANGED liveVars
    /\ UNCHANGED batchVars

\* if dist is None: dist_val = 0.0 else: dist_val = dist
MainClassifyStep ==
    /\ pc = "m_classify"
    /\ dist_val' = MainClassify(dist)
    /\ tick' = Append(tick, "classify")
    /\ pc' = "m_alert"
    /\ UNCHANGED <<mode, sensor, nreads, err, dist, bar, i, sound_plays>>
    /\ UNCHANGED liveVars
    /\ UNCHANGED batchVars

\* if 0 < dist_val < WARNING_DISTANCE: music_obj.sound_play(...)
MainAlert ==
    /\ pc = "m_alert"
    /\ IF MainFires(dist_val)
         THEN /\ sound_plays' = sound_plays + 1
              /\ tick' = Append(Append(tick, "alert"), "play")
         ELSE /\ sound_plays' = sound_plays
              /\ tick' = Append(tick, "alert")
    /\ pc' = "m_push"
    /\ UNCHANGED <<mode, sensor, nreads, err, dist, dist_val, bar, i>>
    /\ UNCHANGED liveVars
    /\ UNCHANGED batchVars

\* distances.append(dist_val); indices.append(i + 1); i += 1; sliding window
MainPush ==
    /\ pc = "m_push"
    /\ distances' = WindowPush(distances, dist_val)
    /\ indices' = IndexPush(indices, i + 1, distances)
    /\ i' = i + 1
    /\ tick' = Append(tick, "push")
    /\ pc' = "m_render"
    /\ UNCHANGED <<mode, sensor, nreads, err, dist, dist_val, bar, sound_plays>>
    /\ UNCHANGED <<line_x, line_y, xlim, ylim>>
    /\ UNCHANGED batchVars

\* line.set_xdata/set_ydata; ax.set_xlim/set_ylim; plt.draw(); plt.pause(0.1)
MainRender ==
    /\ pc = "m_render"
    /\ line_x' = indices
    /\ line_y' = distances
    /\ xlim' = XLimit(i)
    /\ ylim' = YLimit(dist_val)
    /\ tick' = Append(Append(tick, "render"), "pause")
    /\ pc' = "m_sleep2"
    /\ UNCHANGED <<mode, sensor, nreads, err, dist, dist_val, bar, i, sound_plays>>
    /\ UNCHANGED <<distances, indices>>
    /\ UNCHANGED batchVars

\* time.sleep(0.3) at the end of the loop body
MainSleep2 ==
    /\ pc = "m_sleep2"
    /\ tick' = Append(tick, "sleep")
    /\ pc' = "m_read"
    /\ UNCHANGED <<mode, sensor, nreads, err, dist, dist_val, bar, i, sound_plays>>
    /\ UNCHANGED liveVars
    /\ UNCHANGED batchVars

\* ---------------------------------------------------------- gather_readings
\* data = []; print("Starting data collection ...")
GatherInit ==
    /\ pc = "g_init"
    /\ data' = GatherStart(data)
    /\ i' = 0
    /\ calls' = calls + 1
    /\ pc' = "g_loop"
    /\ UNCHANGED <<mode, sensor, nreads, err, dist, dist_val, bar, sound_plays, tick>>
    /\ UNCHANGED liveVars
    /\ UNCHANGED <<num_readings, ret, round_number, plot_x, plot_y, saved, interactive>>

\* for i in range(1, num_readings + 1): next i, or leave the loop
GatherLoop ==
    /\ pc = "g_loop"
    /\ IF LoopContinues(i, num_readings)
         THEN /\ i' = i + 1
              /\ pc' = "g_read"
         ELSE /\ i' = i
              /\ pc' = "g_return"
    /\ UNCHANGED <<mode, sensor, nreads, err, dist, dist_val, bar, sound_plays, tick>>
    /\ UNCHANGED liveVars
    /\ UNCHANGED batchVars

\* dist = sensor.read()
GatherRead ==
    /\ pc = "g_read"
    /\ dist' = Read(sensor, nreads)
    /\ nreads' = nreads + 1
    /\ tick' = <<"sample">>
    /\ pc' = "g_classify"
    /\ UNCHANGED <<mode, sensor, err, dist_val, bar, i, sound_plays>>
    /\ UNCHANGED liveVars
    /\ UNCHANGED batchVars

\* if dist is None: dist_val = 0.0 else: dist_val = max(dist, 0); ASCII bar
GatherClassifyStep ==
    /\ pc = "g_classify"
    /\ dist_val' = GatherClassify(dist)
    /\ bar' = BarLen(GatherClassify(dist))
    /\ tick' = Append(tick, "classify")
    /\ pc' = "g_alert"
    /\ UNCHANGED <<mode, sensor, nreads, err, dist, i, sound_plays>>
    /\ UNCHANGED liveVars
    /\ UNCHANGED batchVars

\* if 0 < dist_val < WARNING_DISTANCE: music_obj.sound_play(...)
GatherAlert ==
    /\ pc = "g_alert"
    /\ IF GatherFires(dist_val)
         THEN /\ sound_plays' = sound_plays + 1
              /\ tick' = Append(Append(tick, "alert"), "play")
         ELSE /\ sound_plays' = sound_plays
              /\ tick' = Append(tick, "alert")
    /\ pc' = "g_append"
    /\ UNCHANGED <<mode, sensor, nreads, err, dist, dist_val, bar, i>>
    /\ UNCHANGED liveVars
    /\ UNCHANGED batchVars

\* data.append((i, dist_val))
GatherAppend ==
    /\ pc = "g_append"
    /\ data' = RoundPush(data, i, dist_val)
    /\ tick' = Append(tick, "push")
    /\ pc' = "g_sleep"
    /\ UNCHANGED <<mode, sensor, nreads, err, dist, dist_val, bar, i, sound_plays>>
    /\ UNCHANGED liveVars
    /\ UNCHANGED <<num_readings, ret, round_number, plot_x, plot_y, saved, interactive, calls>>

\* time.sleep(0.3)
GatherSleep ==
    /\ pc = "g_sleep"
    /\ tick' = Append(tick, "sleep")
    /\ pc' = "g_loop"
    /\ UNCHANGED <<mode, sensor, nreads, err, dist, dist_val, bar, i, sound_plays>>
    /\ UNCHANGED liveVars
    /\ UNCHANGED batchVars

\* print("Collection complete."); return data
GatherReturn ==
    /\ pc = "g_return"
    /\ ret' = data
    /\ pc' = "b_export"
    /\ UNCHANGED <<mode, sensor, nreads, err, dist, dist_val, bar, i, sound_plays, tick>>
    /\ UNCHANGED liveVars
    /\ UNCHANGED <<num_readings, data, round_number, plot_x, plot_y, saved, interactive, calls>>

\* ------------------------------------------------------------ batch driver
\* the driver starts a round: data = gather_readings(sensor, music_obj, N)
BatchRound ==
    /\ pc = "b_round"
    /\ round_number <= MaxRounds
    /\ pc' = "g_init"
    /\ UNCHANGED <<mode, sensor, nreads, err, dist, dist_val, bar, i, sound_plays, tick>>
    /\ UNCHANGED liveVars
    /\ UNCHANGED batchVars

\* plot_data(data, round_number): the series handed to plt.plot and savefig
PlotData ==
    /\ pc = "b_export"
    /\ plot_x' = PlotIndices(ret)
    /\ plot_y' = PlotDistances(ret)
    /\ saved' = SaveFig(saved, round_number)
    /\ pc' = "b_next"
    /\ UNCHANGED <<mode, sensor, nreads, err, dist, dist_val, bar, i, sound_plays, tick>>
    /\ UNCHANGED liveVars
    /\ UNCHANGED <<num_readings, data, ret, round_number, interactive, calls>>

\* the round counter advances; then loop, or ask and stop on a negative answer
BatchNext ==
    /\ pc = "b_next"
    /\ round_number' = NextRound(round_number)
    /\ \E yes \in BOOLEAN :
          /\ (~interactive) => yes
          /\ pc' = IF yes THEN "b_round" ELSE "done"
    /\ UNCHANGED <<mode, sensor, nreads, err, dist, dist_val, bar, i, sound_plays, tick>>
    /\ UNCHANGED liveVars
    /\ UNCHANGED <<num_readings, data, ret, plot_x, plot_y, saved, interactive, calls>>

Next ==
    \/ MainRead
    \/ MainBar
    \/ MainSleep1
    \/ MainClassifyStep
    \/ MainAlert
    \/ MainPush
    \/ MainRender
    \/ MainSleep2
    \/ GatherInit
    \/ GatherLoop
    \/ GatherRead
    \/ GatherClassifyStep
    \/ GatherAlert
    \/ GatherAppend
    \/ GatherSleep
    \/ GatherReturn
    \/ BatchRound
    \/ PlotData
    \/ BatchNext

Spec == Init /\ [][Next]_vars

\* the interpreter keeps executing the single thread: a step that can be
\* taken is eventually taken
FairSpec == Spec /\ WF_vars(Next)

\* ------------------------------------------------------------- properties
\* number of playback calls in the current tick
PlaysInTick == Cardinality({k \in 1..Len(tick) : tick[k] = "play"})

\* the reading with index n of the continuous loop, as main records it
MainReading(n) == MainClassify(Read(sensor, n - 1))

\* the last n-th reading of round c, as gather_readings records it
GatherReading(c, n) == GatherClassify(Read(sensor, (c - 1) * num_readings + n - 1))

\* main has pushed the reading of the current tick
MainPushed == pc \in {"m_render", "m_sleep2"}

\* gather_readings has appended the reading of the current tick
GatherPushed == pc = "g_sleep"

\* C1: in the continuous loop the window never holds more than WINDOW = 200
\* readings; after n ticks it holds exactly the readings with indices
\* max(0, n - 200) + 1 .. n in ascending order, and these lists are what
\* rendering was handed.
C1_WindowLastC ==
    mode = "live" =>
        LET n == Min(i, WINDOW)
        IN  /\ Len(distances) <= WINDOW
            /\ Len(indices) <= WINDOW
            /\ Len(indices) = n
            /\ Len(distances) = n
            /\ \A k \in 1..n : /\ indices[k] = i - n + k
                               /\ distances[k] = MainReading(i - n + k)
            /\ pc = "m_sleep2" => (line_x = indices /\ line_y = distances)

\* C1 witness: three readings beyond the capacity were pushed and rendered
C1_Witness ==
    /\ pc = "m_sleep2"
    /\ i = WINDOW + 3
    /\ Len(distances) = WINDOW
    /\ indices[1] = 4
    /\ indices[WINDOW] = WINDOW + 3

C3_Clamped ==
    /\ (MainPushed /\ dist # None) =>
          distances[Len(distances)] = Max(dist[1], 0)
    /\ (GatherPushed /\ dist # None) =>
          data[Len(data)][2] = Max(dist[1], 0)
    /\ \A k \in 1..Len(distances) : distances[k] >= 0
    /\ \A k \in 1..Len(data) : data[k][2] >= 0

\* C4: a timeout (None) raises no error in either loop: the tick records
\* distance 0 for its index and plays no alert.
C4_TimeoutIsNormal ==
    /\ err = ""
    /\ (MainPushed /\ dist = None) =>
          (distances[Len(distances)] = 0 /\ PlaysInTick = 0)
    /\ (GatherPushed /\ dist = None) =>
          (data[Len(data)] = <<i, 0>> /\ PlaysInTick = 0)

\* gather_readings is accumulating (data is the round being collected)
Gathering ==
    pc \in {"g_loop", "g_read", "g_classify", "g_alert", "g_append", "g_sleep",
            "g_return"}

\* C5: a call of gather_readings takes exactly num_readings samples and
\* returns exactly num_readings entries; during the call the round never
\* holds more; every call starts from the empty list.
C5_RoundExactlyN ==
    mode = "batch" =>
        /\ Len(data) <= num_readings
        /\ (pc = "g_loop" /\ i = 0) => data = <<>>
        /\ pc = "g_loop" =>
              (Len(data) = i /\ nreads = (calls - 1) * num_readings + i)
        /\ pc = "g_return" =>
              (Len(data) = num_readings /\ nreads = calls * num_readings)
        /\ pc = "b_export" =>
              (Len(ret) = num_readings /\ nreads = calls * num_readings)

\* C5 witness: the second round of size 3 has just been returned
C5_Witness ==
    /\ pc = "b_export"
    /\ calls = 2
    /\ num_readings = 3
    /\ Len(ret) = 3
    /\ nreads = 6

\* C6: the series plot_data hands to plotting are the accumulated round:
\* same length, indices 1..N in order, and at every position the index and
\* the distance of the reading accumulated at that position.
C6_ExportRoundTrip ==
    pc = "b_next" =>
        /\ Len(plot_x) = num_readings
        /\ Len(plot_y) = num_readings
        /\ Len(data) = num_readings
        /\ \A k \in 1..num_readings :
              /\ plot_x[k] = k
              /\ data[k] = <<plot_x[k], plot_y[k]>>
              /\ plot_y[k] = GatherReading(calls, k)

\* C6 witness: a round of three readings, not all equal, has been exported
C6_Witness ==
    /\ pc = "b_next"
    /\ plot_x = <<1, 2, 3>>
    /\ Len(plot_y) = 3
    /\ plot_y[1] # plot_y[2]

C8_State ==
    mode = "batch" =>
        /\ calls = 0 => round_number = 1
        /\ pc \in {"b_round", "done"} => round_number = calls + 1
        /\ (Gathering \/ pc \in {"g_init", "b_export", "b_next"}) =>
              round_number \in {calls, calls + 1}
        /\ pc = "done" => (interactive /\ nreads = calls * num_readings)

\* C8, step part: the counter changes only when a round is completed, then
\* by exactly 1; after a completed round the driver starts the next round
\* or, in interactive mode only, ends; once ended nothing more happens.
C8_Step ==
    /\ round_number' = (IF pc = "b_next" THEN round_number + 1 ELSE round_number)
    /\ pc = "b_next" => pc' \in {"b_round", "done"}
    /\ (pc = "b_next" /\ ~interactive) => pc' = "b_round"
    /\ pc' = "done" => pc = "b_next"
    /\ pc # "done"

\* C8: the round counter starts at 1 and increases by exactly 1 per
\* completed round; after each completed round the driver starts the next
\* round or waits for confirmation, and a negative confirmation ends the
\* session with no further sample taken.
C8_RoundCounter == [](C8_State) /\ [][C8_Step]_vars

\* C8 witness: the session was ended after its second round
C8_Witness ==
    /\ pc = "done"
    /\ round_number = 3
    /\ num_readings = 2
    /\ nreads = 4

\* C9 as stated: indices start at 1 and strictly increase within a session,
\* in the continuous loop and across the successive rounds of
\* gather_readings (every index of the round being collected is greater
\* than every index of the round returned before).
C9_IndicesNeverReused ==
    /\ \A k \in 1..(Len(indices) - 1) : indices[k] < indices[k + 1]
    /\ (mode = "live" /\ 1 <= i /\ i <= WINDOW) => indices[1] = 1
    /\ \A k \in 1..(Len(data) - 1) : data[k][1] < data[k + 1][1]
    /\ Gathering =>
          \A k \in 1..Len(ret) : \A j \in 1..Len(data) : ret[k][1] < data[j][1]

\* C9 amended: in the continuous loop the k-th reading carries index k, so
\* indices start at 1 and strictly increase; within each round the k-th
\* reading carries index k, every round starting again at 1.
C9_IndicesPerRound ==
    /\ \A k \in 1..(Len(indices) - 1) : indices[k] < indices[k + 1]
    /\ (mode = "live" /\ 1 <= i /\ i <= WINDOW) => indices[1] = 1
    /\ (mode = "live" /\ 1 <= i) => indices[Len(indices)] = i
    /\ \A k \in 1..(Len(data) - 1) : data[k][1] < data[k + 1][1]
    /\ \A k \in 1..Len(data) : data[k][1] = k

\* C9 witness: the second round holds indices 1, 2 again
C9_Witness ==
    /\ pc = "g_sleep"
    /\ calls = 2
    /\ Len(data) = 2
    /\ data[1][1] = 1
    /\ data[2][1] = 2
    /\ Len(ret) >= 2
    /\ ret[1][1] = 1

\* C10: after every tick of the continuous loop the y limit is at least
\* every distance in the window plus the margin, and the x range 0..xlim
\* contains every index in the window.
C10_AxesCoverWindow ==
    (pc = "m_sleep2" \/ (pc = "m_read" /\ i > 0)) =>
        /\ \A k \in 1..Len(distances) : distances[k] + YMARGIN <= ylim
        /\ \A k \in 1..Len(indices) : 0 <= indices[k] /\ indices[k] <= xlim

\* the events of the current tick without those in the set hidden
TickWithout(hidden) == SelectSeq(tick, LAMBDA e : e \notin hidden)

\* positions of the current tick at which the program is suspended by a
\* sleep or by the plot pause
Suspensions == {k \in 1..Len(tick) : tick[k] \in {"sleep", "pause"}}

\* a tick of the continuous loop is complete
MainTickDone == pc = "m_read" /\ i > 0

\* a tick of the round loop is complete
GatherTickDone == pc = "g_loop" /\ i > 0

\* C11: a complete tick is one sample, one classification, one alert
\* evaluation, one buffer mutation, one render hand-off (continuous loop;
\* the round loop hands its round off once, after its last tick) and then
\* the cadence sleep, in that order; a playback happens right after the alert
\* evaluation and before the reading is appended; no sleep separates the
\* sample from its classification.
C11_TickOrder ==
    /\ MainTickDone =>
          TickWithout({"play", "pause"})
              = <<"sample", "classify", "alert", "push", "render", "sleep">>
    /\ GatherTickDone =>
          TickWithout({"play"}) = <<"sample", "classify", "alert", "push", "sleep">>
    /\ \A k \in 1..Len(tick) :
          tick[k] = "play" =>
              /\ tick[k - 1] = "alert"
              /\ \A j \in 1..k : tick[j] # "push"
    /\ \A k \in 1..Len(tick) :
          tick[k] = "classify" => \A j \in 1..k : tick[j] # "sleep"

\* C12: every complete tick ends with the cadence sleep, whether or not it
\* played the alert, and that sleep is the only suspension of the tick
\* besides the playback call.
C12_SingleSleep ==
    /\ (MainTickDone \/ GatherTickDone) =>
          /\ tick[Len(tick)] = "sleep"
          /\ Cardinality(Suspensions) = 1
    /\ Cardinality(Suspensions) <= 1

\* C13: in the continuous loop distances and indices have equal length in
\* every reachable state, position j of both belongs to the same reading,
\* and the indices held are the contiguous run i - len + 1 .. i, i being
\* the number of readings recorded so far.
C13_LockStep ==
    mode = "live" =>
        /\ Len(distances) = Len(indices)
        /\ \A j \in 1..Len(indices) :
              /\ indices[j] = i - Len(indices) + j
              /\ distances[j] = MainReading(indices[j])

\* C13 witness: between two ticks, after the first eviction
C13_Witness ==
    /\ MainTickDone
    /\ i = WINDOW + 1
    /\ Len(distances) = WINDOW
    /\ Len(indices) = WINDOW
    /\ indices[1] = 2
    /\ distances[1] # distances[2]

\* C14, state part: gather_readings reaches its return after exactly
\* num_readings ticks and samples (none, with an empty round, for size 0);
\* the continuous loop has no terminal state of its own: within the ticks
\* explored it always has a next step.
C14_State ==
    /\ pc = "g_return" =>
          /\ i = num_readings
          /\ Len(data) = num_readings
          /\ nreads = calls * num_readings
    /\ (mode = "live" /\ i < MaxTicks) => ENABLED Next

\* C14: every call of gather_readings returns, after exactly num_readings
\* ticks, for every round size >= 0, whereas the continuous loop never
\* stops by itself.
C14_Termination ==
    /\ [](pc = "g_init" => <>(pc = "g_return"))
    /\ []C14_State

====
